---- MODULE Spec2Model ----
(***************************************************************************)
(* Model of mdviewer: the line scanner of MarkdownRenderer, its inline     *)
(* formatter formatInlineStyles, the heading-id slug generateHeadingId and *)
(* the heading outline of FileViewer, the navigation and file loading of   *)
(* the Home page, and the endpoints /api/files and /api/file-content.      *)
(*                                                                         *)
(* A JavaScript string is modelled as a sequence of one-character strings. *)
(* Array indices are 0-based in the source and 1-based in the sequences;   *)
(* the scanner's line counter i keeps the source's 0-based value.          *)
(***************************************************************************)
EXTENDS Integers, Sequences, FiniteSets, TLC

VARIABLES
  content,        \* MarkdownRenderer: the content prop
  pc,             \* MarkdownRenderer: position in the render pass
  lines,          \* MarkdownRenderer: content.split('\n')
  i,              \* MarkdownRenderer: loop index
  inCodeBlock,    \* MarkdownRenderer: inside an open fence
  codeBlockLines, \* MarkdownRenderer: accumulator of the open fence
  codeLanguage,   \* MarkdownRenderer: language of the open fence
  elements,       \* MarkdownRenderer: emitted nodes, in order
  text,           \* formatInlineStyles: the argument
  parts,          \* formatInlineStyles: the returned spans
  fpc,            \* formatInlineStyles: called or not
  heading,        \* generateHeadingId: the argument
  id,             \* generateHeadingId: the returned id
  hpc,            \* generateHeadingId: called or not
  headings,       \* FileViewer: the memoised outline entries
  activeHeading,  \* FileViewer: the activeHeading state
  domIds,         \* document: the ids getElementById resolves
  scroll,         \* document: what moved the viewport last
  event,          \* FileViewer: the last event it has seen
  vpc,            \* FileViewer: mounted or not
  darkMode,       \* Home: the darkMode state
  mounted,        \* Home: the mounted state
  stored,         \* localStorage: the item 'darkMode'
  fileSystem,     \* Home: the fileSystem state
  path,           \* Home: the path state, a sequence of nodes
  loading,        \* Home: the loading state
  entryContent,   \* FileNode: the content field of every file node
  pending,        \* Home: the loadFileContent calls in flight
  fsFetch,        \* Home: the loadFileSystem call
  disk,           \* server: the entries of the working directory
  request,        \* server: the request being served
  response,       \* server: the response returned
  reads           \* server: the paths whose content has been read

vars == <<content, pc, lines, i, inCodeBlock, codeBlockLines, codeLanguage,
          elements, text, parts, fpc, heading, id, hpc, headings,
          activeHeading, domIds, scroll, event, vpc, darkMode, mounted,
          stored, fileSystem, path, loading, entryContent, pending, fsFetch,
          disk, request, response, reads>>

scanVars == <<content, pc, lines, i, inCodeBlock, codeBlockLines,
              codeLanguage, elements>>

inlineVars == <<text, parts, fpc>>

slugVars == <<heading, id, hpc>>

viewerVars == <<headings, activeHeading, domIds, scroll, event, vpc>>

pageVars == <<darkMode, mounted, stored, fileSystem, path, loading,
              entryContent, pending, fsFetch>>

apiVars == <<disk, request, response, reads>>

appVars == <<viewerVars, pageVars, apiVars>>

\* The values of the variables of a component that a specification leaves out
ScanIdle ==
  /\ pc = "idle" /\ lines = <<>> /\ i = 0
  /\ inCodeBlock = FALSE /\ codeBlockLines = <<>> /\ codeLanguage = <<>>
  /\ elements = <<>>

InlineIdle == text = <<>> /\ parts = <<>> /\ fpc = "idle"

SlugIdle == heading = <<>> /\ id = <<>> /\ hpc = "idle"

ViewerIdle ==
  /\ headings = <<>> /\ activeHeading = <<>> /\ domIds = {}
  /\ scroll = [by |-> "none", id |-> <<>>]
  /\ event = [kind |-> "none", id |-> <<>>]
  /\ vpc = "idle"

PageIdle ==
  /\ darkMode = FALSE /\ mounted = FALSE /\ stored = <<>>
  /\ fileSystem = <<>> /\ path = <<>>
  /\ loading = FALSE /\ entryContent = <<>> /\ pending = {}
  /\ fsFetch = "idle"

ApiIdle ==
  /\ disk = <<>>
  /\ request = [endpoint |-> "none", path |-> <<>>]
  /\ response = [status |-> 0]
  /\ reads = {}

AppIdle == ViewerIdle /\ PageIdle /\ ApiIdle

----------------------------------------------------------------------------
(* Bounds of the model *)

MaxLines == 4

MaxLineLen == 3

MaxTextLen == 5

MaxHeadingLen == 4

----------------------------------------------------------------------------
(* JavaScript string primitives *)

SetMin(S) == CHOOSE x \in S : \A y \in S : x <= y

SetMax(S) == CHOOSE x \in S : \A y \in S : x >= y

\* Sequences over alphabet A of length at most n
StringsUpTo(A, n) == UNION {[1..k -> A] : k \in 0..n}

\* The backtick character (a string cannot hold it: the name stands for it)
BT == "backtick"

\* \s of a JavaScript regular expression / the characters trim() strips
WhiteSpace == {" ", "\t", "\r", "\n"}

IsSpace(c) == c \in WhiteSpace

\* \d
DigitChars == {"0", "1", "2", "3", "4", "5", "6", "7", "8", "9"}

IsDigit(c) == c \in DigitChars

UpperChars == <<"A", "B", "C", "D", "E", "F", "G", "H", "I", "J", "K", "L", "M",
                "N", "O", "P", "Q", "R", "S", "T", "U", "V", "W", "X", "Y", "Z">>

LowerChars == <<"a", "b", "c", "d", "e", "f", "g", "h", "i", "j", "k", "l", "m",
                "n", "o", "p", "q", "r", "s", "t", "u", "v", "w", "x", "y", "z">>

\* \w
WordChars ==
  DigitChars \cup {"_"} \cup {UpperChars[k] : k \in 1..26}
    \cup {LowerChars[k] : k \in 1..26}

IsWord(c) == c \in WordChars

LowerChar(c) ==
  IF \E k \in 1..26 : c = UpperChars[k]
  THEN LowerChars[CHOOSE k \in 1..26 : c = UpperChars[k]]
  ELSE c

\* String.prototype.toLowerCase
ToLowerCase(s) == [k \in 1..Len(s) |-> LowerChar(s[k])]

\* String.prototype.trim
Trim(s) ==
  LET keep == {k \in 1..Len(s) : ~IsSpace(s[k])}
  IN  IF keep = {} THEN <<>> ELSE SubSeq(s, SetMin(keep), SetMax(keep))

\* String.prototype.startsWith
StartsWith(s, p) == Len(s) >= Len(p) /\ SubSeq(s, 1, Len(p)) = p

\* String.prototype.indexOf, 1-based; 0 when p does not occur
IndexOf(s, p) ==
  LET at == {k \in 1..(Len(s) - Len(p) + 1) : SubSeq(s, k, k + Len(p) - 1) = p}
  IN  IF at = {} THEN 0 ELSE SetMin(at)

\* String.prototype.replace(p, '') with a string pattern: first occurrence only
RemoveFirst(s, p) ==
  LET k == IndexOf(s, p)
  IN  IF k = 0 THEN s
      ELSE SubSeq(s, 1, k - 1) \o SubSeq(s, k + Len(p), Len(s))

\* String.prototype.split(sep) with a non-empty string separator
RECURSIVE SplitStr(_, _)
SplitStr(s, sep) ==
  LET k == IndexOf(s, sep)
  IN  IF k = 0 THEN <<s>>
      ELSE <<SubSeq(s, 1, k - 1)>> \o SplitStr(SubSeq(s, k + Len(sep), Len(s)), sep)

\* Array.prototype.join(sep)
RECURSIVE Join(_, _)
Join(ss, sep) ==
  IF ss = <<>> THEN <<>>
  ELSE IF Len(ss) = 1 THEN ss[1]
  ELSE ss[1] \o sep \o Join(Tail(ss), sep)

\* Concatenation of a sequence of strings
RECURSIVE Concat(_)
Concat(ss) == IF ss = <<>> THEN <<>> ELSE ss[1] \o Concat(Tail(ss))

\* Number of leading whitespace characters: what ^[\s]* consumes
LeadingSpaces(s) ==
  LET stop == {k \in 1..Len(s) : ~IsSpace(s[k])}
  IN  IF stop = {} THEN Len(s) ELSE SetMin(stop) - 1

\* String.prototype.search with a character class, 0-based; -1 when absent
SearchClass(s, class) ==
  LET at == {k \in 1..Len(s) : s[k] \in class}
  IN  IF at = {} THEN -1 ELSE SetMin(at) - 1

----------------------------------------------------------------------------
(* formatInlineStyles *)

\* s.substring(a, b) with the source's 0-based positions
SubStr(s, a, b) == SubSeq(s, a + 1, b)

\* The character . of a regular expression matches: anything but a line end
IsDot(c) == c \notin {"\n", "\r"}

\* The delimiter of the three regular expressions of formatInlineStyles:
\* codeRegex (a backtick), the bold split (two stars), the italic split (one)
Delim(re) ==
  CASE re = "code"   -> <<BT>>
    [] re = "bold"   -> <<"*", "*">>
    [] re = "italic" -> <<"*">>

\* Ends of the matches of the regular expression re that start at position q
\* of s (0-based, end exclusive): delimiter, one or more body characters,
\* delimiter
MatchEnds(re, s, q) ==
  LET d == Len(Delim(re))
      DelimAt(a) == a + d <= Len(s) /\ SubStr(s, a, a + d) = Delim(re)
      Body(c) == IF re = "code" THEN c # BT ELSE IsDot(c)
  IN  IF ~DelimAt(q) THEN {}
      ELSE {e \in (q + 2 * d + 1)..Len(s) :
              /\ DelimAt(e - d)
              /\ \A a \in (q + d)..(e - d - 1) : Body(s[a + 1])}

\* The longest match at position q: a greedy body
MatchEndGreedy(re, s, q) ==
  IF MatchEnds(re, s, q) = {} THEN -1 ELSE SetMax(MatchEnds(re, s, q))

\* End of the match the regular expression engine finds at position q, or -1.
\* The lazy quantifier of the bold and italic expressions takes the shortest
\* body; the body of the code expression excludes the delimiter, so it has one
\* match at most
MatchEnd(re, s, q) ==
  IF MatchEnds(re, s, q) = {} THEN -1 ELSE SetMin(MatchEnds(re, s, q))

\* String.prototype.split with a regular expression that has one capture
\* group: the loop of the ECMAScript SplitMatcher, p the end of the last
\* match and q the position tried next; the capture follows each piece
RECURSIVE SplitLoop(_, _, _, _)
SplitLoop(re, s, p, q) ==
  IF q >= Len(s) THEN <<SubStr(s, p, Len(s))>>
  ELSE LET e == MatchEnd(re, s, q)
           d == Len(Delim(re))
       IN  IF e = -1 \/ e = p THEN SplitLoop(re, s, p, q + 1)
           ELSE <<SubStr(s, p, q), SubStr(s, q + d, e - d)>>
                  \o SplitLoop(re, s, e, e)

SplitRe(s, re) == IF s = <<>> THEN <<s>> ELSE SplitLoop(re, s, 0, 0)

\* <code>, <strong>, <em> and <span> elements pushed onto parts
Span(kind, value) == [kind |-> kind, value |-> value]

\* The italic pass that emits the empty pieces too
ItalicPassKeepEmpty(boldPart) ==
  LET italicParts == SplitRe(boldPart, "italic")
  IN  [k \in 1..Len(italicParts) |->
        IF (k - 1) % 2 = 1 THEN Span("Italic", italicParts[k])
        ELSE Span("PlainText", italicParts[k])]

\* The italic pass with a plain split on the star
ItalicPassPlainSplit(boldPart) ==
  LET italicParts == SplitStr(boldPart, <<"*">>)
  IN  Concat([k \in 1..Len(italicParts) |->
        IF (k - 1) % 2 = 1 THEN <<Span("Italic", italicParts[k])>>
        ELSE IF italicParts[k] # <<>> THEN <<Span("PlainText", italicParts[k])>>
        ELSE <<>>])

\* italicParts.forEach of one non-empty piece left by the bold split
ItalicPass(boldPart) ==
  LET italicParts == SplitRe(boldPart, "italic")
  IN  Concat([k \in 1..Len(italicParts) |->
        IF (k - 1) % 2 = 1 THEN <<Span("Italic", italicParts[k])>>
        ELSE IF italicParts[k] # <<>> THEN <<Span("PlainText", italicParts[k])>>
        ELSE <<>>])

\* The bold pass with a plain split on the double star
BoldPassPlainSplit(part) ==
  LET boldParts == SplitStr(part, <<"*", "*">>)
  IN  Concat([k \in 1..Len(boldParts) |->
        IF (k - 1) % 2 = 1 THEN <<Span("Bold", boldParts[k])>>
        ELSE IF boldParts[k] # <<>> THEN ItalicPass(boldParts[k])
        ELSE <<>>])

\* boldParts.forEach of one even piece left by the code split
BoldPass(part) ==
  LET boldParts == SplitRe(part, "bold")
  IN  Concat([k \in 1..Len(boldParts) |->
        IF (k - 1) % 2 = 1 THEN <<Span("Bold", boldParts[k])>>
        ELSE IF boldParts[k] # <<>> THEN ItalicPass(boldParts[k])
        ELSE <<>>])

formatInlineStyles(txt) ==
  LET codeParts == SplitRe(txt, "code")
  IN  Concat([k \in 1..Len(codeParts) |->
        IF (k - 1) % 2 = 1 THEN <<Span("InlineCode", codeParts[k])>>
        ELSE BoldPass(codeParts[k])])


----------------------------------------------------------------------------
(* MarkdownRenderer: the line scanner *)

Fence == <<BT, BT, BT>>

NL == <<"\n">>

\* The test without trim()
IsFenceUntrimmed(line) == StartsWith(line, Fence)

\* line.trim().startsWith of three backticks
IsFence(line) == StartsWith(Trim(line), Fence)

\* The tag without toLowerCase()
FenceLanguageRaw(line) == RemoveFirst(Trim(line), Fence)

\* codeLanguage assigned when a fence opens
FenceLanguage(line) == ToLowerCase(RemoveFirst(Trim(line), Fence))

\* The list markers of the unordered-list expression
Markers == {"-", "*", "+"}

IsMarker(c) == c \in Markers

\* Length of what the unordered-list expression matches at the start of the
\* line (whitespace, one marker, one whitespace character); 0 without a match
UnorderedMatch(line) ==
  LET n == LeadingSpaces(line)
  IN  IF Len(line) >= n + 2 /\ IsMarker(line[n + 1]) /\ IsSpace(line[n + 2])
      THEN n + 2 ELSE 0

\* Length of what the ordered-list expression matches at the start of the line
\* (whitespace, digits, a dot, one whitespace character); 0 without a match
OrderedMatch(line) ==
  LET n == LeadingSpaces(line)
      stop == {k \in (n + 1)..Len(line) : ~IsDigit(line[k])}
      m == IF stop = {} THEN Len(line) - n ELSE SetMin(stop) - n - 1
  IN  IF m >= 1 /\ Len(line) >= n + m + 2 /\ line[n + m + 1] = "."
         /\ IsSpace(line[n + m + 2])
      THEN n + m + 2 ELSE 0

\* The horizontal-rule expression: the whole line is three or more of one of
\* the characters star, hyphen, underscore
RuleMatch(line) ==
  /\ Len(line) >= 3
  /\ \E c \in {"*", "-", "_"} : \A k \in 1..Len(line) : line[k] = c

HeaderPrefix(level) == [k \in 1..(level + 1) |-> IF k <= level THEN "#" ELSE " "]

\* The header text with the whitespace around it dropped
HeadingNodeTrimmed(key, level, line) ==
  [key |-> key, kind |-> "Heading", level |-> level,
   text |-> Trim(RemoveFirst(line, HeaderPrefix(level)))]

HeadingNode(key, level, line) ==
  [key |-> key, kind |-> "Heading", level |-> level,
   text |-> RemoveFirst(line, HeaderPrefix(level))]

\* formattedQuote: quoteText.split of two stars, odd pieces in <strong>
BlockquoteNode(key, line) ==
  LET quoteText == RemoveFirst(line, <<">", " ">>)
      pieces == SplitStr(quoteText, <<"*", "*">>)
  IN  [key |-> key, kind |-> "Blockquote",
       spans |-> [k \in 1..Len(pieces) |->
                    IF (k - 1) % 2 = 1 THEN Span("Bold", pieces[k])
                    ELSE Span("PlainText", pieces[k])]]

\* The list item with a nesting depth of two columns per level
ListItemNodeNesting(key, ordered, indent, rest) ==
  [key |-> key, kind |-> "ListItem", ordered |-> ordered,
   indentLevel |-> indent \div 2, spans |-> formatInlineStyles(rest)]

ListItemNode(key, ordered, indent, rest) ==
  [key |-> key, kind |-> "ListItem", ordered |-> ordered,
   indentLevel |-> indent, spans |-> formatInlineStyles(rest)]

ParagraphNode(key, line) ==
  [key |-> key, kind |-> "Paragraph", spans |-> formatInlineStyles(line)]

\* The chain with the paragraph branch ahead of the list branches
BlockNodesParagraphEarly(line, key) ==
  IF StartsWith(line, HeaderPrefix(1)) THEN <<HeadingNode(key, 1, line)>>
  ELSE IF StartsWith(line, HeaderPrefix(2)) THEN <<HeadingNode(key, 2, line)>>
  ELSE IF StartsWith(line, HeaderPrefix(3)) THEN <<HeadingNode(key, 3, line)>>
  ELSE IF StartsWith(line, HeaderPrefix(4)) THEN <<HeadingNode(key, 4, line)>>
  ELSE IF StartsWith(line, <<">", " ">>) THEN <<BlockquoteNode(key, line)>>
  ELSE IF Len(Trim(line)) > 0 THEN <<ParagraphNode(key, line)>>
  ELSE IF UnorderedMatch(line) > 0
    THEN <<ListItemNode(key, FALSE, SearchClass(line, Markers),
                        SubSeq(line, UnorderedMatch(line) + 1, Len(line)))>>
  ELSE IF OrderedMatch(line) > 0
    THEN <<ListItemNode(key, TRUE, SearchClass(line, DigitChars),
                        SubSeq(line, OrderedMatch(line) + 1, Len(line)))>>
  ELSE IF RuleMatch(line) THEN <<[key |-> key, kind |-> "HorizontalRule"]>>
  ELSE IF Trim(line) = <<>> THEN <<[key |-> key, kind |-> "BlankSpacer"]>>
  ELSE <<>>

\* The chain without a node for a blank line
BlockNodesNoSpacer(line, key) ==
  IF StartsWith(line, HeaderPrefix(1)) THEN <<HeadingNode(key, 1, line)>>
  ELSE IF StartsWith(line, HeaderPrefix(2)) THEN <<HeadingNode(key, 2, line)>>
  ELSE IF StartsWith(line, HeaderPrefix(3)) THEN <<HeadingNode(key, 3, line)>>
  ELSE IF StartsWith(line, HeaderPrefix(4)) THEN <<HeadingNode(key, 4, line)>>
  ELSE IF StartsWith(line, <<">", " ">>) THEN <<BlockquoteNode(key, line)>>
  ELSE IF UnorderedMatch(line) > 0
    THEN <<ListItemNode(key, FALSE, SearchClass(line, Markers),
                        SubSeq(line, UnorderedMatch(line) + 1, Len(line)))>>
  ELSE IF OrderedMatch(line) > 0
    THEN <<ListItemNode(key, TRUE, SearchClass(line, DigitChars),
                        SubSeq(line, OrderedMatch(line) + 1, Len(line)))>>
  ELSE IF RuleMatch(line) THEN <<[key |-> key, kind |-> "HorizontalRule"]>>
  ELSE IF Len(Trim(line)) > 0 THEN <<ParagraphNode(key, line)>>
  ELSE <<>>

\* The if / else-if chain of one loop iteration outside a code block: the
\* nodes pushed onto elements for the line (one, or none if no branch is taken)
BlockNodes(line, key) ==
  IF StartsWith(line, HeaderPrefix(1)) THEN <<HeadingNode(key, 1, line)>>
  ELSE IF StartsWith(line, HeaderPrefix(2)) THEN <<HeadingNode(key, 2, line)>>
  ELSE IF StartsWith(line, HeaderPrefix(3)) THEN <<HeadingNode(key, 3, line)>>
  ELSE IF StartsWith(line, HeaderPrefix(4)) THEN <<HeadingNode(key, 4, line)>>
  ELSE IF StartsWith(line, <<">", " ">>) THEN <<BlockquoteNode(key, line)>>
  ELSE IF UnorderedMatch(line) > 0
    THEN <<ListItemNode(key, FALSE, SearchClass(line, Markers),
                        SubSeq(line, UnorderedMatch(line) + 1, Len(line)))>>
  ELSE IF OrderedMatch(line) > 0
    THEN <<ListItemNode(key, TRUE, SearchClass(line, DigitChars),
                        SubSeq(line, OrderedMatch(line) + 1, Len(line)))>>
  ELSE IF RuleMatch(line) THEN <<[key |-> key, kind |-> "HorizontalRule"]>>
  ELSE IF Trim(line) = <<>> THEN <<[key |-> key, kind |-> "BlankSpacer"]>>
  ELSE IF Len(Trim(line)) > 0 THEN <<ParagraphNode(key, line)>>
  ELSE <<>>

CodeBlockNode(key, language, codeLines) ==
  [key |-> key, kind |-> "CodeBlock", language |-> language,
   content |-> Join(codeLines, NL)]

\* Lines the documents are built from
CoreLines ==
  { <<" ", BT, BT, BT, "J", "S", " ">>,
    <<BT, BT, BT>>,
    <<"#", " ", "T">>,
    <<"a", "*", "b", "*">>,
    <<>>,
    <<"-", " ", "a">> }

\* Characters of the exhaustively enumerated one-line documents
ClassAlphabet == {"#", ">", "-", "*", "1", ".", " ", "a", "_", BT}

\* The unterminated-fence scenario of the specification
UnterminatedExample ==
  <<BT, BT, BT, "j", "s", "\n", "c", "o", "n", "s", "t", " ", "a", " ", "=", " ", "1", ";", "\n">>

\* Further documents: a level-4 header, indented items, a fence inside a
\* line, a fence closed by a tagged fence, a quote with delimiters, quotes and
\* ordered items around and inside a fence
\* The four header levels, one per line, with a final newline
HeadersExample ==
  <<"#", " ", "T", "i", "t", "l", "e", "\n", "#", "#", " ", "S", "u", "b",
    "\n", "#", "#", "#", " ", "D", "e", "t", "a", "i", "l", "\n", "#", "#",
    "#", "#", " ", "N", "o", "t", "e", "\n">>

\* Two unordered items at raw offsets 2 and 4, with a final newline
ListExample ==
  <<" ", " ", "-", " ", "i", "t", "e", "m", " ", "a", "\n", " ", " ", " ",
    " ", "-", " ", "i", "t", "e", "m", " ", "b", "\n">>

ExtraDocuments ==
  { HeadersExample,
    ListExample,
    <<"-", "-", "-", " ", "\n", " ", "_", "_", "_">>,
    <<"#", " ", " ", "x", " ", "\n", "#", "#", " ", "*", "b", "*">>,
    <<">", " ", "a", " ", "*", "*", "b">>,
    <<"#", "#", "#", "#", " ", "n">>,
    <<" ", " ", "+", " ", "c", "\n", "\t", "1", "2", ".", " ", "d">>,
    <<"a", BT, BT, BT, "\n", "-", "-", "-">>,
    <<BT, BT, BT, "\n", "\n", BT, BT, BT, "x", "\n", BT, BT, BT>>,
    <<">", " ", "*", "*", "q", "*", "*", " ", "*", "r", "*">>,
    <<">", " ", "q", "\n", "1", ".", " ", "b", "\n", BT, BT, BT, "\n", ">", " ", "q", "\n", BT, BT, BT, "\n", "1", ".", " ", "b">> }

Documents ==
  {Join(ls, NL) : ls \in UNION {[1..k -> CoreLines] : k \in 1..MaxLines}}
    \cup StringsUpTo(ClassAlphabet, MaxLineLen)
    \cup {UnterminatedExample}
    \cup ExtraDocuments

InitScan ==
  /\ content \in Documents
  /\ pc = "start"
  /\ lines = <<>>
  /\ i = 0
  /\ inCodeBlock = FALSE
  /\ codeBlockLines = <<>>
  /\ codeLanguage = <<>>
  /\ elements = <<>>
  /\ text = <<>> /\ parts = <<>> /\ fpc = "idle"
  /\ heading = <<>> /\ id = <<>> /\ hpc = "idle"
  /\ AppIdle

\* if (!content) return null
ReturnNull ==
  /\ pc = "start"
  /\ content = <<>>
  /\ pc' = "null"
  /\ UNCHANGED <<content, lines, i, inCodeBlock, codeBlockLines, codeLanguage,
                 elements, inlineVars, slugVars, appVars>>

\* const lines = content.split of the newline, and the initial loop state
StartScan ==
  /\ pc = "start"
  /\ content # <<>>
  /\ lines' = SplitStr(content, NL)
  /\ i' = 0
  /\ inCodeBlock' = FALSE
  /\ codeBlockLines' = <<>>
  /\ codeLanguage' = <<>>
  /\ elements' = <<>>
  /\ pc' = "scan"
  /\ UNCHANGED <<content, inlineVars, slugVars, appVars>>

\* The opening fence marker that leaves the line index where it is
FenceOpenStay ==
  /\ pc = "scan" /\ i < Len(lines)
  /\ IsFence(lines[i + 1])
  /\ ~inCodeBlock
  /\ inCodeBlock' = TRUE
  /\ codeLanguage' = FenceLanguage(lines[i + 1])
  /\ codeBlockLines' = <<>>
  /\ UNCHANGED <<content, pc, lines, i, elements, inlineVars, slugVars,
                 appVars>>

\* A fence marker while no block is open
FenceOpen ==
  /\ pc = "scan" /\ i < Len(lines)
  /\ IsFence(lines[i + 1])
  /\ ~inCodeBlock
  /\ inCodeBlock' = TRUE
  /\ codeLanguage' = FenceLanguage(lines[i + 1])
  /\ codeBlockLines' = <<>>
  /\ i' = i + 1
  /\ UNCHANGED <<content, pc, lines, elements, inlineVars, slugVars, appVars>>

\* The closing fence marker that keeps the accumulator and the language
FenceCloseNoReset ==
  /\ pc = "scan" /\ i < Len(lines)
  /\ IsFence(lines[i + 1])
  /\ inCodeBlock
  /\ inCodeBlock' = FALSE
  /\ elements' = Append(elements, CodeBlockNode(i, codeLanguage, codeBlockLines))
  /\ i' = i + 1
  /\ UNCHANGED <<content, pc, lines, codeBlockLines, codeLanguage, inlineVars,
                 slugVars, appVars>>

\* A fence marker while a block is open
FenceClose ==
  /\ pc = "scan" /\ i < Len(lines)
  /\ IsFence(lines[i + 1])
  /\ inCodeBlock
  /\ inCodeBlock' = FALSE
  /\ elements' = Append(elements, CodeBlockNode(i, codeLanguage, codeBlockLines))
  /\ codeBlockLines' = <<>>
  /\ codeLanguage' = <<>>
  /\ i' = i + 1
  /\ UNCHANGED <<content, pc, lines, inlineVars, slugVars, appVars>>

\* What codeBlockLines.push receives for a line inside the open block
CollectedLine(line) == line

\* if (inCodeBlock): collect the line
CollectCodeLine ==
  /\ pc = "scan" /\ i < Len(lines)
  /\ ~IsFence(lines[i + 1])
  /\ inCodeBlock
  /\ codeBlockLines' = Append(codeBlockLines, CollectedLine(lines[i + 1]))
  /\ i' = i + 1
  /\ UNCHANGED <<content, pc, lines, inCodeBlock, codeLanguage, elements,
                 inlineVars, slugVars, appVars>>

\* The block-level branches
EmitBlock ==
  /\ pc = "scan" /\ i < Len(lines)
  /\ ~IsFence(lines[i + 1])
  /\ ~inCodeBlock
  /\ elements' = elements \o BlockNodes(lines[i + 1], i)
  /\ i' = i + 1
  /\ UNCHANGED <<content, pc, lines, inCodeBlock, codeBlockLines, codeLanguage,
                 inlineVars, slugVars, appVars>>

\* The return with a still-open block flushed into a CodeBlock
ReturnElementsFlush ==
  /\ pc = "scan" /\ i >= Len(lines)
  /\ pc' = "done"
  /\ elements' = IF inCodeBlock
                 THEN Append(elements, CodeBlockNode(i, codeLanguage, codeBlockLines))
                 ELSE elements
  /\ UNCHANGED <<content, lines, i, inCodeBlock, codeBlockLines, codeLanguage,
                 inlineVars, slugVars, appVars>>

\* The loop ends: return the elements
ReturnElements ==
  /\ pc = "scan" /\ i >= Len(lines)
  /\ pc' = "done"
  /\ UNCHANGED <<content, lines, i, inCodeBlock, codeBlockLines, codeLanguage,
                 elements, inlineVars, slugVars, appVars>>

NextScan ==
  \/ ReturnNull
  \/ StartScan
  \/ FenceOpen
  \/ FenceClose
  \/ CollectCodeLine
  \/ EmitBlock
  \/ ReturnElements

SpecScan == InitScan /\ [][NextScan]_vars


----------------------------------------------------------------------------
(* formatInlineStyles as an operation *)

InlineAlphabet == {BT, "*", "a", "b"}

\* The mixed-inline scenario of the specification
MixedExample ==
  <<"U", "s", "e", " ", BT, "x", BT, " ", "a", "n", "d", " ", "*", "*", "b", "o", "l", "d", "*", "*", " ", "a", "n", "d", " ", "*", "i", "t", "a", "l", "i", "c", "*", ".">>

Texts == StringsUpTo(InlineAlphabet, MaxTextLen) \cup {MixedExample}

InitInline ==
  /\ text \in Texts
  /\ parts = <<>>
  /\ fpc = "call"
  /\ content = <<>> /\ pc = "idle" /\ lines = <<>> /\ i = 0
  /\ inCodeBlock = FALSE /\ codeBlockLines = <<>> /\ codeLanguage = <<>>
  /\ elements = <<>>
  /\ heading = <<>> /\ id = <<>> /\ hpc = "idle"
  /\ AppIdle

Format ==
  /\ fpc = "call"
  /\ parts' = formatInlineStyles(text)
  /\ fpc' = "done"
  /\ UNCHANGED <<text, scanVars, slugVars, appVars>>

NextInline == Format

SpecInline == InitInline /\ [][NextInline]_vars

----------------------------------------------------------------------------
(* generateHeadingId *)

\* replace(class, '') with the g flag: the characters of keep stay
Filter(s, keep) == SelectSeq(s, LAMBDA c : c \in keep)

\* Replace every maximal run of characters of the class by one hyphen: the
\* first character of a run becomes the hyphen, the others go
RunsToHyphen(s, class) ==
  LET marked == [k \in 1..Len(s) |->
                   IF s[k] \notin class THEN s[k]
                   ELSE IF k > 1 /\ s[k - 1] \in class THEN "" ELSE "-"]
  IN  SelectSeq(marked, LAMBDA c : c # "")

\* The characters the first replace of generateHeadingId leaves in place
KeptChars == WordChars \cup WhiteSpace \cup {"-"}

\* The first replace with the character class not negated
KeepSpecial(s) == SelectSeq(s, LAMBDA c : c \notin KeptChars)

\* replace of every character that is not a word character, whitespace or a
\* hyphen by nothing
RemoveSpecial(s) == Filter(s, KeptChars)

\* replace of every whitespace run by a hyphen
SpacesToHyphens(s) == RunsToHyphen(s, WhiteSpace)

\* Hyphen runs left as they are
NoCollapse(s) == s

\* replace of every hyphen run by one hyphen
CollapseHyphens(s) == RunsToHyphen(s, {"-"})

\* replace of a hyphen at the start and of a hyphen at the end by nothing
StripEdgeHyphens(s) ==
  LET a == IF s # <<>> /\ s[1] = "-" THEN Tail(s) ELSE s
  IN  IF a # <<>> /\ a[Len(a)] = "-" THEN SubSeq(a, 1, Len(a) - 1) ELSE a

generateHeadingId(t) ==
  StripEdgeHyphens(CollapseHyphens(SpacesToHyphens(RemoveSpecial(Trim(ToLowerCase(t))))))

HeadingAlphabet == {"A", "a", "1", "_", " ", "-", "!"}

\* What the second group of headingRegex can capture: one character or more,
\* and whitespace in front only when the whitespace before it had to give
\* back its last character, which is then the whole text
HeadingTexts ==
  {t \in StringsUpTo(HeadingAlphabet, MaxHeadingLen) :
     t # <<>> /\ (IsSpace(t[1]) => Len(t) = 1)}

InitSlug ==
  /\ heading \in HeadingTexts
  /\ id = <<>>
  /\ hpc = "call"
  /\ content = <<>> /\ pc = "idle" /\ lines = <<>> /\ i = 0
  /\ inCodeBlock = FALSE /\ codeBlockLines = <<>> /\ codeLanguage = <<>>
  /\ elements = <<>>
  /\ text = <<>> /\ parts = <<>> /\ fpc = "idle"
  /\ AppIdle

GenerateId ==
  /\ hpc = "call"
  /\ id' = generateHeadingId(heading)
  /\ hpc' = "done"
  /\ UNCHANGED <<heading, scanVars, inlineVars, appVars>>

NextSlug == GenerateId

SpecSlug == InitSlug /\ [][NextSlug]_vars


----------------------------------------------------------------------------
(* FileViewer: the heading outline *)

\* The line terminators of a regular expression
LineTerminators == {"\n", "\r"}

\* ^ with the m flag at offset q (from 0): the start of the input or the
\* position behind a line terminator
AtLineStart(s, q) == q = 0 \/ s[q] \in LineTerminators

\* $ with the m flag at offset q: the end of the input or the position in
\* front of a line terminator
AtLineEnd(s, q) == q = Len(s) \/ s[q + 1] \in LineTerminators

\* The ways headingRegex matches at offset q: h characters #, w whitespace
\* characters, n characters that are no line terminators, then $
HeadingMatches(s, q) ==
  {m \in (1..3) \X (1..Len(s)) \X (1..Len(s)) :
     /\ q + m[1] + m[2] + m[3] <= Len(s)
     /\ \A k \in (q + 1)..(q + m[1]) : s[k] = "#"
     /\ \A k \in (q + m[1] + 1)..(q + m[1] + m[2]) : IsSpace(s[k])
     /\ \A k \in (q + m[1] + m[2] + 1)..(q + m[1] + m[2] + m[3]) : IsDot(s[k])
     /\ AtLineEnd(s, q + m[1] + m[2] + m[3])}

\* The match the backtracking of the three greedy quantifiers finds first:
\* the longest run of #, then the longest whitespace, then the longest text
HeadingMatch(s, q) ==
  LET ms == HeadingMatches(s, q)
      h == SetMax({m[1] : m \in ms})
      w == SetMax({m[2] : m \in {x \in ms : x[1] = h}})
      n == SetMax({m[3] : m \in {x \in ms : x[1] = h /\ x[2] = w}})
  IN  <<h, w, n>>

\* The offsets at or behind p where headingRegex matches
MatchOffsets(s, p) ==
  {q \in p..Len(s) : AtLineStart(s, q) /\ HeadingMatches(s, q) # {}}

\* content.matchAll(headingRegex) from lastIndex p, each match as the pair
\* of its two groups
RECURSIVE MatchAll(_, _)
MatchAll(s, p) ==
  IF MatchOffsets(s, p) = {} THEN <<>>
  ELSE LET q == SetMin(MatchOffsets(s, p))
           m == HeadingMatch(s, q)
       IN  <<[hashes |-> SubStr(s, q, q + m[1]),
              text |-> SubStr(s, q + m[1] + m[2], q + m[1] + m[2] + m[3])]>>
             \o MatchAll(s, q + m[1] + m[2] + m[3])

\* The outline entry of a match
HeadingEntry(match) ==
  [text |-> match.text, level |-> Len(match.hashes),
   id |-> generateHeadingId(match.text)]

\* const headings = useMemo(...)
ExtractHeadings(c) ==
  IF c = <<>> THEN <<>>
  ELSE LET matches == MatchAll(c, 0)
       IN  [k \in 1..Len(matches) |-> HeadingEntry(matches[k])]

\* The id attributes of the elements the renderer emits: its h1 to h4
\* elements carry a key and a className only
RenderedIds == {}

\* Longest document of the exhaustive enumeration
MaxDocLen == 4

ViewerAlphabet == {"#", " ", "\n", "a"}

\* The same header line twice
HelloExample ==
  <<"#", " ", "H", "e", "l", "l", "o", " ", "W", "o", "r", "l", "d", "\n",
    "#", " ", "H", "e", "l", "l", "o", " ", "W", "o", "r", "l", "d", "\n">>

ViewerExamples ==
  { HelloExample,
    <<"#", "#", "#", "#", " ", "a">>,
    <<"#", "\n", "#", " ", "a">>,
    <<"#", "\t", "a", "\r", "\n", "#", "#", "#", " ", "a", " ", "a">> }

ViewerDocuments == StringsUpTo(ViewerAlphabet, MaxDocLen) \cup ViewerExamples

\* Ids of elements of the document that the renderer has not emitted
ForeignIds == {<<"a">>, generateHeadingId(<<"H", "e", "l", "l", "o", " ", "W", "o", "r", "l", "d">>)}

InitViewer ==
  /\ content \in ViewerDocuments
  /\ headings = <<>>
  /\ activeHeading = <<>>
  /\ domIds \in SUBSET ForeignIds
  /\ scroll = [by |-> "none", id |-> <<>>]
  /\ event = [kind |-> "none", id |-> <<>>]
  /\ vpc = "mount"
  /\ ScanIdle /\ InlineIdle /\ SlugIdle /\ PageIdle /\ ApiIdle

\* The first render of FileViewer
RenderViewer ==
  /\ vpc = "mount"
  /\ headings' = ExtractHeadings(content)
  /\ domIds' = domIds \cup RenderedIds
  /\ event' = [kind |-> "render", id |-> <<>>]
  /\ vpc' = "shown"
  /\ UNCHANGED <<content, activeHeading, scroll, pc, lines, i, inCodeBlock,
                 codeBlockLines, codeLanguage, elements, inlineVars, slugVars,
                 pageVars, apiVars>>

\* A later render of FileViewer with the same content
Rerender ==
  /\ vpc = "shown"
  /\ headings' = ExtractHeadings(content)
  /\ domIds' = domIds \cup RenderedIds
  /\ event' = [kind |-> "render", id |-> <<>>]
  /\ UNCHANGED <<content, activeHeading, scroll, vpc, pc, lines, i,
                 inCodeBlock, codeBlockLines, codeLanguage, elements,
                 inlineVars, slugVars, pageVars, apiVars>>

\* scrollToHeading that takes the element for granted
ScrollToHeadingUnchecked(k) ==
  /\ vpc = "shown"
  /\ k \in 1..Len(headings)
  /\ scroll' = [by |-> "element", id |-> headings[k].id]
  /\ activeHeading' = headings[k].id
  /\ event' = [kind |-> "click", id |-> headings[k].id]
  /\ UNCHANGED <<content, headings, domIds, vpc, pc, lines, i, inCodeBlock,
                 codeBlockLines, codeLanguage, elements, inlineVars, slugVars,
                 pageVars, apiVars>>

\* onClick of outline entry k: scrollToHeading(heading.id)
ScrollToHeading(k) ==
  /\ vpc = "shown"
  /\ k \in 1..Len(headings)
  /\ IF headings[k].id \in domIds
     THEN /\ scroll' = [by |-> "element", id |-> headings[k].id]
          /\ activeHeading' = headings[k].id
     ELSE UNCHANGED <<scroll, activeHeading>>
  /\ event' = [kind |-> "click", id |-> headings[k].id]
  /\ UNCHANGED <<content, headings, domIds, vpc, pc, lines, i, inCodeBlock,
                 codeBlockLines, codeLanguage, elements, inlineVars, slugVars,
                 pageVars, apiVars>>

\* The user scrolls the view
UserScroll ==
  /\ vpc = "shown"
  /\ scroll' = [by |-> "user", id |-> <<>>]
  /\ event' = [kind |-> "scroll", id |-> <<>>]
  /\ UNCHANGED <<content, headings, activeHeading, domIds, vpc, scanVars,
                 inlineVars, slugVars, pageVars, apiVars>>

\* onToggleDarkMode while the viewer is shown
ToggleDarkModeViewer ==
  /\ vpc = "shown"
  /\ darkMode' = ~darkMode
  /\ event' = [kind |-> "toggle", id |-> <<>>]
  /\ UNCHANGED <<content, headings, activeHeading, domIds, scroll, vpc, pc,
                 lines, i, inCodeBlock, codeBlockLines, codeLanguage, elements,
                 inlineVars, slugVars, mounted, stored, fileSystem, path,
                 loading, entryContent, pending, fsFetch, apiVars>>

NextViewer ==
  \/ RenderViewer
  \/ Rerender
  \/ \E k \in 1..Len(headings) : ScrollToHeading(k)
  \/ UserScroll
  \/ ToggleDarkModeViewer

SpecViewer == InitViewer /\ [][NextViewer]_vars

----------------------------------------------------------------------------
(* Home: navigation and file loading *)

\* The nodes of the listing the page works with: the root folder with a
\* folder d, which holds the file g, and a file f
Nodes == {"root", "d", "f", "g"}

NodeType == [root |-> "folder", d |-> "folder", f |-> "file", g |-> "file"]

Children == [root |-> <<"d", "f">>, d |-> <<"g">>, f |-> <<>>, g |-> <<>>]

Files == {n \in Nodes : NodeType[n] = "file"}

Folders == {n \in Nodes : NodeType[n] = "folder"}

\* The content the file-content endpoint returns for a file
Backend == [f |-> <<"#", " ", "F">>, g |-> <<"G">>]

\* The string loadFileContent returns when the fetch fails
ErrorText ==
  <<"E", "r", "r", "o", "r", " ", "l", "o", "a", "d", "i", "n", "g", " ",
    "f", "i", "l", "e", " ", "c", "o", "n", "t", "e", "n", "t", ".">>

\* Longest path and most loadFileContent calls in flight
MaxPathLen == 4

MaxPending == 2

\* An optional value is the empty sequence or the sequence of the value
Undefined == <<>>

\* !entry.content: the content is undefined or the empty string
Falsy(c) == c = Undefined \/ c = <<<<>>>>

Last(p) == p[Len(p)]

\* What localStorage holds under 'darkMode': nothing, or a string the page
\* has written
StoredValues == {Undefined, <<"true">>, <<"false">>}

\* darkMode.toString()
BoolString(b) == IF b THEN "true" ELSE "false"

\* The load effect: darkMode after setDarkMode(saved === 'true'), which is
\* called when an item is stored
LoadDarkMode(dark, item) ==
  IF item # Undefined THEN item[1] = "true" ELSE dark

\* The save effect of a commit whose mounted and darkMode are m and dark:
\* the item it leaves in a store that held item
SaveDarkMode(m, dark, item) ==
  IF m THEN <<BoolString(dark)>> ELSE item

\* The page shows its header, sidebar and main view
Shown == mounted /\ ~loading /\ fileSystem # Undefined

\* The page shows nothing but the spinner and "Loading files..."
LoadingScreen == mounted /\ (loading \/ fileSystem = Undefined)

InitPage ==
  /\ darkMode = FALSE
  /\ mounted = FALSE
  /\ stored \in StoredValues
  /\ fileSystem = Undefined
  /\ path = <<>>
  /\ loading = TRUE
  /\ entryContent = [e \in Files |-> Undefined]
  /\ pending = {}
  /\ fsFetch = "idle"
  /\ content = <<>>
  /\ ScanIdle /\ InlineIdle /\ SlugIdle /\ ViewerIdle /\ ApiIdle

\* The effects of the first commit, in their order, and the save effect of
\* the commit that follows from setMounted and setDarkMode: the preference
\* is read, the save effect of the first commit finds mounted false,
\* loadFileSystem('') runs up to its await, and the save effect runs again
\* with mounted true and the darkMode read
MountEffects ==
  /\ ~mounted
  /\ fsFetch = "idle"
  /\ mounted' = TRUE
  /\ darkMode' = LoadDarkMode(darkMode, stored)
  /\ stored' = SaveDarkMode(TRUE, LoadDarkMode(darkMode, stored),
                            SaveDarkMode(mounted, darkMode, stored))
  /\ loading' = TRUE
  /\ fsFetch' = "pending"
  /\ UNCHANGED <<fileSystem, path, entryContent, pending, content,
                 scanVars, inlineVars, slugVars, viewerVars, apiVars>>

\* loadFileSystem behind its await; its path is the empty path of the
\* render that started it
FileSystemResponse(ok) ==
  /\ fsFetch = "pending"
  /\ IF ok
     THEN fileSystem' = <<"root">> /\ path' = <<"root">>
     ELSE UNCHANGED <<fileSystem, path>>
  /\ loading' = FALSE
  /\ fsFetch' = "done"
  /\ UNCHANGED <<darkMode, mounted, stored, entryContent, pending, content, scanVars,
                 inlineVars, slugVars, viewerVars, apiVars>>

\* handleEntryClick up to its await, or to its end where it does not wait
handleEntryClick(entry) ==
  /\ Len(path) < MaxPathLen
  /\ IF NodeType[entry] = "file" /\ Falsy(entryContent[entry])
     THEN /\ Cardinality(pending) < MaxPending
          /\ pending' = pending \cup {[entry |-> entry, path |-> path]}
          /\ UNCHANGED path
     ELSE /\ path' = Append(path, entry)
          /\ UNCHANGED pending
  /\ UNCHANGED <<darkMode, mounted, stored, fileSystem, loading, entryContent, fsFetch,
                 content, scanVars, inlineVars, slugVars, viewerVars, apiVars>>

\* FileList: a click on an entry of the current folder
FileListClick(entry) ==
  /\ Shown
  /\ path # <<>>
  /\ NodeType[Last(path)] = "folder"
  /\ \E k \in 1..Len(Children[Last(path)]) : Children[Last(path)][k] = entry
  /\ handleEntryClick(entry)

\* Sidebar: a click on a folder below the root
SidebarClick(entry) ==
  /\ Shown
  /\ entry \in Folders \ {"root"}
  /\ handleEntryClick(entry)

\* loadFileContent: the text it returns
loadFileContent(entry, ok) == IF ok THEN Backend[entry] ELSE ErrorText

\* handleEntryClick behind its await, with the path of the render in which
\* the entry was clicked
ContentResponse(call, ok) ==
  /\ call \in pending
  /\ entryContent' =
       [entryContent EXCEPT ![call.entry] = <<loadFileContent(call.entry, ok)>>]
  /\ path' = Append(call.path, call.entry)
  /\ pending' = pending \ {call}
  /\ UNCHANGED <<darkMode, mounted, stored, fileSystem, loading, fsFetch, content, scanVars,
                 inlineVars, slugVars, viewerVars, apiVars>>

handleBreadcrumbClick(index) ==
  /\ Shown
  /\ index \in 0..(Len(path) - 1)
  /\ path' = SubSeq(path, 1, index + 1)
  /\ UNCHANGED <<darkMode, mounted, stored, fileSystem, loading, entryContent, pending,
                 fsFetch, content, scanVars, inlineVars, slugVars, viewerVars,
                 apiVars>>

navigateUp ==
  /\ Shown
  /\ path # <<>>
  /\ Len(path) > 1
  /\ path' = SubSeq(path, 1, Len(path) - 1)
  /\ UNCHANGED <<darkMode, mounted, stored, fileSystem, loading, entryContent, pending,
                 fsFetch, content, scanVars, inlineVars, slugVars, viewerVars,
                 apiVars>>

\* onToggleDarkMode, with the save effect of the commit it causes
ToggleDarkMode ==
  /\ Shown
  /\ darkMode' = ~darkMode
  /\ stored' = SaveDarkMode(mounted, ~darkMode, stored)
  /\ UNCHANGED <<mounted, fileSystem, path, loading, entryContent, pending,
                 fsFetch, content, scanVars, inlineVars, slugVars, viewerVars,
                 apiVars>>

\* The browser loads the page again: every state of Home and every FileNode
\* starts anew, the calls in flight are dropped, localStorage stays
Reload ==
  /\ mounted
  /\ darkMode' = FALSE
  /\ mounted' = FALSE
  /\ fileSystem' = Undefined
  /\ path' = <<>>
  /\ loading' = TRUE
  /\ entryContent' = [e \in Files |-> Undefined]
  /\ pending' = {}
  /\ fsFetch' = "idle"
  /\ UNCHANGED <<stored, content, scanVars, inlineVars, slugVars, viewerVars,
                 apiVars>>

\* The content prop FileViewer hands to MarkdownRenderer and to its heading
\* extraction: currentFile.content, or the empty string
RenderedContent ==
  IF entryContent[Last(path)] = Undefined THEN <<>>
  ELSE entryContent[Last(path)][1]

\* The main view is the FileViewer
ViewerShown == Shown /\ path # <<>> /\ NodeType[Last(path)] = "file"

NextPage ==
  \/ MountEffects
  \/ \E ok \in BOOLEAN : FileSystemResponse(ok)
  \/ \E entry \in Nodes : FileListClick(entry)
  \/ \E entry \in Nodes : SidebarClick(entry)
  \/ \E call \in pending : \E ok \in BOOLEAN : ContentResponse(call, ok)
  \/ \E index \in 0..MaxPathLen : handleBreadcrumbClick(index)
  \/ navigateUp
  \/ ToggleDarkMode
  \/ Reload

SpecPage == InitPage /\ [][NextPage]_vars

----------------------------------------------------------------------------
(* The endpoints /api/files and /api/file-content *)

\* Most segments of a requested path and most entries of a directory
MaxSegments == 3

MaxEntries == 3

\* Segments of paths, as strings
Up == <<".", ".">>

DocsName == <<"d", "o", "c", "s">>

SiblingName == <<"d", "o", "c", "s", "2">>

\* process.cwd(), as segments
Cwd == <<<<"a", "p", "p">>>>

\* path.join and path.normalize of an absolute path: a .. segment drops the
\* segment in front of it, and nothing at the root
RECURSIVE Normalize(_, _)
Normalize(done, segs) ==
  IF segs = <<>> THEN done
  ELSE IF segs[1] = Up
    THEN Normalize(IF done = <<>> THEN <<>> ELSE SubSeq(done, 1, Len(done) - 1),
                   Tail(segs))
    ELSE Normalize(Append(done, segs[1]), Tail(segs))

\* path.join of relative paths: a .. segment drops the named segment in front
\* of it and stays where there is none
RECURSIVE NormalizeRel(_, _)
NormalizeRel(done, segs) ==
  IF segs = <<>> THEN done
  ELSE IF segs[1] = Up /\ done # <<>> /\ Last(done) # Up
    THEN NormalizeRel(SubSeq(done, 1, Len(done) - 1), Tail(segs))
    ELSE NormalizeRel(Append(done, segs[1]), Tail(segs))

\* The absolute path as a string
PathString(segs) ==
  IF segs = <<>> THEN <<"/">>
  ELSE Concat([k \in 1..Len(segs) |-> <<"/">> \o segs[k]])

EndsWith(s, p) ==
  Len(s) >= Len(p) /\ SubSeq(s, Len(s) - Len(p) + 1, Len(s)) = p

\* const baseDir = path.join(process.cwd(), 'docs')
BaseDir == Append(Cwd, DocsName)

\* The security check: normalizedTarget.startsWith(normalizedBase)
PassesCheck(target) == StartsWith(PathString(target), PathString(BaseDir))

File(name, data) == [name |-> name, dir |-> FALSE, children |-> <<>>, data |-> data]

Dir(name, children) == [name |-> name, dir |-> TRUE, children |-> children, data |-> <<>>]

\* The entry of a directory with the name, if any
EntryNamed(entries, name) ==
  IF \E k \in 1..Len(entries) : entries[k].name = name
  THEN <<entries[CHOOSE k \in 1..Len(entries) : entries[k].name = name]>>
  ELSE <<>>

\* The entry at the end of the segments below a directory, if any
RECURSIVE Walk(_, _)
Walk(entry, segs) ==
  IF segs = <<>> THEN <<entry>>
  ELSE IF ~entry.dir \/ EntryNamed(entry.children, segs[1]) = <<>> THEN <<>>
  ELSE Walk(EntryNamed(entry.children, segs[1])[1], Tail(segs))

\* The entry at an absolute path, if any: the working directory holds the
\* entries of the disk, and above it there are only its ancestors
Lookup(d, target) ==
  IF Len(target) < Len(Cwd)
  THEN IF target = SubSeq(Cwd, 1, Len(target)) THEN <<Dir(<<>>, <<>>)>> ELSE <<>>
  ELSE IF SubSeq(target, 1, Len(Cwd)) # Cwd THEN <<>>
  ELSE Walk(Dir(<<>>, d), SubSeq(target, Len(Cwd) + 1, Len(target)))

\* The order of the characters of the names in the collation of localeCompare
CollationOrder ==
  <<"_", ".", "0", "1", "2", "3", "4", "5", "6", "7", "8", "9", "a", "b", "c",
    "d", "e", "f", "g", "h", "i", "j", "k", "l", "m", "n", "o", "p", "q", "r",
    "s", "t", "u", "v", "w", "x", "y", "z">>

CollationRank(c) == CHOOSE k \in 1..Len(CollationOrder) : CollationOrder[k] = c

\* a.localeCompare(b), as -1, 0 or 1
localeCompare(a, b) ==
  LET diff == {k \in 1..Len(a) : k <= Len(b) /\ a[k] # b[k]}
  IN  IF diff # {}
      THEN (IF CollationRank(a[SetMin(diff)]) < CollationRank(b[SetMin(diff)])
            THEN -1 ELSE 1)
      ELSE IF Len(a) < Len(b) THEN -1
      ELSE IF Len(a) > Len(b) THEN 1
      ELSE 0

\* A comparator that looks at the names alone
compareByName(a, b) == localeCompare(a.name, b.name)

\* The comparator of nodes.sort
compareNodes(a, b) ==
  IF a.type = b.type THEN localeCompare(a.name, b.name)
  ELSE IF a.type = "folder" THEN -1 ELSE 1

\* nodes.sort: a stable sort by the comparator
RECURSIVE SortNodes(_)
SortNodes(nodes) ==
  IF nodes = <<>> THEN <<>>
  ELSE LET sorted == SortNodes(SubSeq(nodes, 1, Len(nodes) - 1))
           x == nodes[Len(nodes)]
           before == {k \in 1..Len(sorted) : compareNodes(sorted[k], x) <= 0}
           at == IF before = {} THEN 0 ELSE SetMax(before)
       IN  SubSeq(sorted, 1, at) \o <<x>> \o SubSeq(sorted, at + 1, Len(sorted))

NodeModules == <<"n", "o", "d", "e", "_", "m", "o", "d", "u", "l", "e", "s">>

\* readDirectory(dirPath, relativePath) for the entries readdirSync returns
RECURSIVE readDirectory(_, _)
readDirectory(entries, relativePath) ==
  LET Kept(e) == ~StartsWith(e.name, <<".">>) /\ e.name # NodeModules
                   /\ (e.dir \/ EndsWith(e.name, <<".", "m", "d">>))
      kept == SelectSeq(entries, Kept)
      RelPath(e) == NormalizeRel(<<>>, Append(relativePath, e.name))
      Node(e) ==
        IF e.dir
        THEN [id |-> RelPath(e), name |-> e.name, type |-> "folder",
              path |-> RelPath(e),
              children |-> readDirectory(e.children, RelPath(e))]
        ELSE [id |-> RelPath(e), name |-> e.name, type |-> "file",
              path |-> RelPath(e)]
  IN  SortNodes([k \in 1..Len(kept) |-> Node(kept[k])])

\* Sequences without repetition of at most n elements of a set
Arrangements(S, n) ==
  {q \in UNION {[1..k -> S] : k \in 0..n} :
     \A a \in 1..Len(q) : \A b \in 1..Len(q) : q[a] = q[b] => a = b}

\* A disk with files inside and outside the docs directory
FixedDocs ==
  <<File(<<"x", ".", "t", "x", "t">>, <<"X">>), File(<<"a", ".", "m", "d">>, <<"A">>),
    Dir(<<"s", "u", "b">>, <<File(<<"b", ".", "m", "d">>, <<"B">>)>>), Dir(<<"d", ".", "m", "d">>, <<>>)>>

FixedDisk ==
  <<Dir(DocsName, FixedDocs),
    Dir(SiblingName, <<File(<<"s", ".", "m", "d">>, <<"S">>)>>),
    File(<<"s", ".", "m", "d">>, <<"T">>)>>

\* The entries a folder b of the docs directory may hold
NestedEntries ==
  {File(<<"z", ".", "m", "d">>, <<"Z">>), File(<<"y", ".", "m", "d">>, <<"Y">>), File(<<".", "x">>, <<>>),
   Dir(<<"k">>, <<>>)}

\* The entries the docs directory may hold, b apart
DocsEntries ==
  {Dir(<<"a", "b">>, <<>>), Dir(NodeModules, <<>>), File(<<"a", ".", "m", "d">>, <<"A">>),
   File(<<"c", ".", "m", "d">>, <<"C">>), File(<<"n", ".", "t", "x", "t">>, <<"N">>), File(<<".", "h", ".", "m", "d">>, <<"H">>)}

\* The docs directories whose listing is taken: any entries in any order
ListedDocs ==
  UNION {Arrangements(DocsEntries \cup {Dir(<<"b">>, nested)}, MaxEntries) :
           nested \in Arrangements(NestedEntries, MaxEntries - 1)}

\* The segments of the paths requested from the fixed disk
Segments ==
  {Up, DocsName, SiblingName, <<"a", ".", "m", "d">>, <<"s", ".", "m", "d">>, <<"s", "u", "b">>, <<"x", ".", "t", "x", "t">>}

Requests ==
  [endpoint : {"files", "file-content"},
   path : UNION {[1..k -> Segments] : k \in 0..MaxSegments}]

NoResponse == [status |-> 0]

InitApi ==
  /\ \/ /\ disk = FixedDisk
        /\ request \in Requests
     \/ /\ disk \in {<<Dir(DocsName, docs)>> : docs \in ListedDocs} \cup {<<>>}
        /\ request \in [endpoint : {"files"}, path : {<<>>, <<<<"b">>>>}]
  /\ response = NoResponse
  /\ reads = {}
  /\ content = <<>>
  /\ ScanIdle /\ InlineIdle /\ SlugIdle /\ ViewerIdle /\ PageIdle

\* GET of /api/file-content
GetFileContent ==
  /\ request.endpoint = "file-content"
  /\ response = NoResponse
  /\ LET filePath == request.path
         targetFile == Normalize(<<>>, BaseDir \o filePath)
         found == Lookup(disk, targetFile)
     IN  IF filePath = <<>>
         THEN response' = [status |-> 400] /\ UNCHANGED reads
         ELSE IF ~PassesCheck(targetFile)
         THEN response' = [status |-> 403] /\ UNCHANGED reads
         ELSE IF found = <<>>
         THEN response' = [status |-> 404] /\ UNCHANGED reads
         ELSE IF ~EndsWith(PathString(targetFile), <<".", "m", "d">>)
         THEN response' = [status |-> 403] /\ UNCHANGED reads
         ELSE IF found[1].dir
         THEN response' = [status |-> 500] /\ UNCHANGED reads
         ELSE /\ response' = [status |-> 200, content |-> found[1].data]
              /\ reads' = reads \cup {targetFile}
  /\ UNCHANGED <<disk, request, content, scanVars, inlineVars, slugVars,
                 viewerVars, pageVars>>

\* GET of /api/files
GetFiles ==
  /\ request.endpoint = "files"
  /\ response = NoResponse
  /\ LET requestedPath == request.path
         made == IF Lookup(disk, BaseDir) = <<>>
                 THEN Append(disk, Dir(DocsName, <<>>)) ELSE disk
         targetDir == IF requestedPath # <<>>
                      THEN Normalize(<<>>, BaseDir \o requestedPath)
                      ELSE BaseDir
         found == Lookup(made, targetDir)
     IN  /\ disk' = made
         /\ IF ~PassesCheck(targetDir)
            THEN response' = [status |-> 403] /\ UNCHANGED reads
            ELSE IF found = <<>>
            THEN response' = [status |-> 404] /\ UNCHANGED reads
            ELSE /\ response' =
                      [status |-> 200,
                       id |-> requestedPath,
                       name |-> IF requestedPath # <<>> THEN Last(requestedPath)
                                ELSE <<"D", "o", "c", "s">>,
                       type |-> "folder",
                       path |-> requestedPath,
                       children |-> IF found[1].dir
                                    THEN readDirectory(found[1].children,
                                                       requestedPath)
                                    ELSE <<>>]
                 /\ reads' = reads \cup {targetDir}
  /\ UNCHANGED <<request, content, scanVars, inlineVars, slugVars, viewerVars,
                 pageVars>>

NextApi == GetFileContent \/ GetFiles

SpecApi == InitApi /\ [][NextApi]_vars

----------------------------------------------------------------------------
(* Properties of generateHeadingId *)

LowerLetters == {LowerChars[k] : k \in 1..26}

Digits == {"0", "1", "2", "3", "4", "5", "6", "7", "8", "9"}

IdChars == LowerLetters \cup Digits \cup {"_", "-"}

\* The heading text lowercased and without the characters that are neither
\* word characters, whitespace nor hyphens
PunctuationStripped(t) ==
  SelectSeq(ToLowerCase(t),
            LAMBDA c : c \in IdChars \/ c \in {" ", "\t", "\r", "\n"})

\* C9: the id derived from any heading text contains only lowercase letters,
\* digits, underscores and hyphens, has no two adjacent hyphens, and neither
\* starts nor ends with a hyphen.
C9_IdWellFormed ==
  hpc = "done" =>
    /\ \A k \in 1..Len(id) : id[k] \in IdChars
    /\ \A k \in 1..(Len(id) - 1) : ~(id[k] = "-" /\ id[k + 1] = "-")
    /\ id # <<>> => (id[1] # "-" /\ id[Len(id)] # "-")

\* A heading with an uppercase letter, a space, a hyphen and punctuation has
\* been turned into a non-empty id
C9_Witness ==
  /\ hpc = "done"
  /\ id # <<>>
  /\ \A c \in {"A", " ", "-", "!"} : \E k \in 1..Len(heading) : heading[k] = c

\* C10 as stated: the id is empty only if the lowercased, punctuation-stripped
\* text is empty or all whitespace.
C10_EmptyOnlyIfBlank ==
  (hpc = "done" /\ id = <<>>) =>
    \A k \in 1..Len(PunctuationStripped(heading)) :
      PunctuationStripped(heading)[k] \in {" ", "\t", "\r", "\n"}

\* C10 amended: the id is empty only if the lowercased, punctuation-stripped
\* text is empty or consists solely of whitespace and hyphens.
C10_EmptyOnlyIfBlankOrHyphens ==
  (hpc = "done" /\ id = <<>>) =>
    \A k \in 1..Len(PunctuationStripped(heading)) :
      PunctuationStripped(heading)[k] \in {" ", "\t", "\r", "\n", "-"}

\* A heading of hyphens and punctuation has been given the empty id
C10_Witness ==
  /\ hpc = "done"
  /\ id = <<>>
  /\ \E k \in 1..Len(heading) : heading[k] = "-"
  /\ \E k \in 1..Len(heading) : heading[k] = "!"


----------------------------------------------------------------------------
(* Properties of the scanner *)

\* The lines of the document
DocLines == SplitStr(content, NL)

\* The line, with the whitespace in front of it dropped, starts with three
\* backticks
IsFenceLine(line) ==
  \E n \in 0..Len(line) :
    /\ \A k \in 1..n : line[k] \in {" ", "\t", "\r"}
    /\ Len(line) >= n + 3
    /\ \A k \in (n + 1)..(n + 3) : line[k] = BT

\* Positions (from 1) of the fence-marker lines of the document
FenceIdx == {k \in 1..Len(DocLines) : IsFenceLine(DocLines[k])}

FencesBefore(k) == Cardinality({j \in FenceIdx : j < k})

\* Positions in elements of the nodes emitted for line k (from 1) of the
\* document
NodesAt(k) == {n \in 1..Len(elements) : elements[n].key = k - 1}

CodeBlocks == {n \in 1..Len(elements) : elements[n].kind = "CodeBlock"}

\* The block rules in priority order, as the line patterns they test
RuleKinds ==
  <<"Heading", "Blockquote", "ListItem", "ListItem", "HorizontalRule",
    "BlankSpacer", "Paragraph">>

RuleMatches(r, line) ==
  CASE r = 1 -> \E n \in 1..4 :
                  /\ Len(line) >= n + 1
                  /\ \A k \in 1..n : line[k] = "#"
                  /\ line[n + 1] = " "
    [] r = 2 -> Len(line) >= 2 /\ line[1] = ">" /\ line[2] = " "
    [] r = 3 -> \E n \in 0..Len(line) :
                  /\ Len(line) >= n + 2
                  /\ \A k \in 1..n : line[k] \in {" ", "\t", "\r"}
                  /\ line[n + 1] \in {"-", "*", "+"}
                  /\ line[n + 2] \in {" ", "\t", "\r"}
    [] r = 4 -> \E n \in 0..Len(line) : \E m \in 1..Len(line) :
                  /\ Len(line) >= n + m + 2
                  /\ \A k \in 1..n : line[k] \in {" ", "\t", "\r"}
                  /\ \A k \in (n + 1)..(n + m) :
                       line[k] \in {"0", "1", "2", "3", "4", "5", "6", "7", "8", "9"}
                  /\ line[n + m + 1] = "."
                  /\ line[n + m + 2] \in {" ", "\t", "\r"}
    [] r = 5 -> /\ Len(line) >= 3
                /\ line[1] \in {"*", "-", "_"}
                /\ \A k \in 1..Len(line) : line[k] = line[1]
    [] r = 6 -> \A k \in 1..Len(line) : line[k] \in {" ", "\t", "\r"}
    [] r = 7 -> \E k \in 1..Len(line) : line[k] \notin {" ", "\t", "\r"}

FirstRule(line) == SetMin({r \in 1..7 : RuleMatches(r, line)})

\* C1: every node emitted for a line outside a code block has the kind of the
\* first rule, in the order header, blockquote, unordered item, ordered item,
\* horizontal rule, blank line, paragraph, whose pattern the line matches.
C1_FirstMatchWins ==
  \A n \in 1..Len(elements) :
    elements[n].kind # "CodeBlock" =>
      LET line == DocLines[elements[n].key + 1]
      IN  /\ elements[n].kind = RuleKinds[FirstRule(line)]
          /\ elements[n].kind = "ListItem" =>
               (elements[n].ordered <=> FirstRule(line) = 4)

\* Every rule has produced a node for a line that a later rule matches too
C1_Witness ==
  /\ pc = "done"
  /\ \E n \in 1..Len(elements) :
       /\ elements[n].kind = "ListItem"
       /\ RuleMatches(3, DocLines[elements[n].key + 1])
       /\ RuleMatches(7, DocLines[elements[n].key + 1])
  /\ \E n \in 1..Len(elements) : elements[n].kind = "Heading"
  /\ \E n \in 1..Len(elements) : elements[n].kind = "Paragraph"

\* What C2 says of the nodes of the document
NodeCounts ==
  /\ \A k \in 1..Len(DocLines) :
       /\ Cardinality(NodesAt(k)) =
            IF IsFenceLine(DocLines[k])
            THEN (IF FencesBefore(k) % 2 = 1 THEN 1 ELSE 0)
            ELSE (IF FencesBefore(k) % 2 = 1 THEN 0 ELSE 1)
       /\ \A n \in NodesAt(k) :
            elements[n].kind = "CodeBlock" <=> IsFenceLine(DocLines[k])
  /\ \A n \in 1..Len(elements) : elements[n].key + 1 \in 1..Len(DocLines)
  /\ Len(elements) <= Len(DocLines)
  /\ Cardinality(CodeBlocks) = Cardinality(FenceIdx) \div 2

\* C2 as stated: for every document the scanner emits one CodeBlock per
\* fence-close line, nothing for a fence-open line or a line inside an open
\* fence, and one node for every other line.
C2_NodeCounts == pc \in {"done", "null"} => NodeCounts

\* C2 amended: the same, for every non-empty document (the renderer returns
\* nothing at all for the empty document).
C2_NodeCountsNonEmpty == (pc \in {"done", "null"} /\ content # <<>>) => NodeCounts

\* A document with a closed fence around a line and a line after it has been
\* scanned
C2_Witness ==
  /\ pc = "done"
  /\ Cardinality(FenceIdx) = 2
  /\ Len(DocLines) = 4
  /\ Len(elements) = 2
  /\ \E k \in 1..Len(DocLines) : ~IsFenceLine(DocLines[k]) /\ NodesAt(k) = {}

\* C3: every fence-marker line toggles inCodeBlock, with or without a
\* language tag; it is never appended to codeBlockLines and the only node it
\* can produce is a CodeBlock.
C3_FenceToggles ==
  /\ [][(pc = "scan" /\ i < Len(lines) /\ IsFenceLine(lines[i + 1])) =>
          /\ inCodeBlock' = ~inCodeBlock
          /\ i' = i + 1
          /\ codeBlockLines' = <<>>
          /\ \/ elements' = elements
             \/ /\ Len(elements') = Len(elements) + 1
                /\ SubSeq(elements', 1, Len(elements)) = elements
                /\ elements'[Len(elements')].kind = "CodeBlock"
                /\ inCodeBlock]_vars
  /\ [](\A k \in 1..Len(codeBlockLines) : ~IsFenceLine(codeBlockLines[k]))
  /\ [](\A n \in 1..Len(elements) :
          IsFenceLine(DocLines[elements[n].key + 1])
            <=> elements[n].kind = "CodeBlock")

\* A fence with a language tag and leading whitespace has been opened and a
\* bare fence has closed it
C3_Witness ==
  /\ pc = "done"
  /\ ~inCodeBlock
  /\ \E n \in 1..Len(elements) :
       /\ elements[n].kind = "CodeBlock"
       /\ elements[n].language # <<>>
       /\ elements[n].key >= 1
       /\ DocLines[elements[n].key + 1] = Fence
       /\ DocLines[elements[n].key][1] = " "

\* Position (from 1) in the document of the first character of line k
LineStart(k) ==
  IF k = 1 THEN 1 ELSE Len(Join(SubSeq(DocLines, 1, k - 1), NL)) + 2

\* The characters of the document between the end of line p and the start
\* of line q, without the two newlines
Interior(p, q) ==
  IF q = p + 1 THEN <<>>
  ELSE SubSeq(content, LineStart(p + 1), LineStart(q) - 2)

\* The language tag of a fence line: what follows the three backticks, up to
\* the whitespace at the end of the line
FenceTag(line) ==
  LET n == SetMin({k \in 1..Len(line) : line[k] = BT})
      last == SetMax({k \in 1..Len(line) : line[k] \notin {" ", "\t", "\r"}})
  IN  SubSeq(line, n + 3, last)

Lowered(t) ==
  [k \in 1..Len(t) |->
     IF \E j \in 1..26 : UpperChars[j] = t[k]
     THEN LowerChars[CHOOSE j \in 1..26 : UpperChars[j] = t[k]]
     ELSE t[k]]

\* C4: a document with exactly one fenced block (two fence-marker lines)
\* yields exactly one CodeBlock, whose language is the opening tag lowercased
\* and whose content is the text between the two fence lines, character for
\* character.
C4_FenceRoundTrip ==
  (pc = "done" /\ Cardinality(FenceIdx) = 2) =>
    LET p == SetMin(FenceIdx)
        q == SetMax(FenceIdx)
    IN  /\ Cardinality(CodeBlocks) = 1
        /\ \A n \in CodeBlocks :
             /\ elements[n].language = Lowered(FenceTag(DocLines[p]))
             /\ elements[n].content = Interior(p, q)

\* A block with an uppercase tag around a line with inline delimiters has
\* been emitted
C4_Witness ==
  /\ pc = "done"
  /\ Cardinality(FenceIdx) = 2
  /\ \E n \in CodeBlocks :
       /\ elements[n].language = <<"j", "s">>
       /\ elements[n].content = <<"a", "*", "b", "*">>

\* C5: when the number of fence-marker lines is odd, no node is emitted for
\* the last fence marker or any line after it, the lines after it sit in the
\* accumulator, no CodeBlock is emitted for them, and the scenario document
\* of an opening fence, one code line and a trailing newline yields no node.
C5_UnterminatedFence ==
  (pc = "done" /\ Cardinality(FenceIdx) % 2 = 1) =>
    LET p == SetMax(FenceIdx)
    IN  /\ \A n \in 1..Len(elements) : elements[n].key + 1 < p
        /\ Cardinality(CodeBlocks) = (Cardinality(FenceIdx) - 1) \div 2
        /\ inCodeBlock
        /\ codeBlockLines = SubSeq(DocLines, p + 1, Len(DocLines))
        /\ content = UnterminatedExample => elements = <<>>

\* A scan has ended inside a fence that was opened after a closed block, with
\* a line absorbed after it
C5_Witness ==
  /\ pc = "done"
  /\ Cardinality(FenceIdx) = 3
  /\ codeBlockLines # <<>>
  /\ Len(elements) = 1


----------------------------------------------------------------------------
(* Properties of formatInlineStyles *)

\* A delimiter pair of t: <<a, e>>, the positions (from 1) where the opening
\* and the closing delimiter d start, with at least one character between
\* them, and no backtick between two backticks
PairsOf(t, d) ==
  {pr \in (1..Len(t)) \X (1..Len(t)) :
     /\ pr[2] >= pr[1] + Len(d) + 1
     /\ pr[2] + Len(d) - 1 <= Len(t)
     /\ SubSeq(t, pr[1], pr[1] + Len(d) - 1) = d
     /\ SubSeq(t, pr[2], pr[2] + Len(d) - 1) = d
     /\ d = <<BT>> => \A k \in (pr[1] + 1)..(pr[2] - 1) : t[k] # BT}

\* The leftmost pair, closed by the nearest closing delimiter
FirstPair(t, d) ==
  CHOOSE pr \in PairsOf(t, d) :
    \A other \in PairsOf(t, d) :
      pr[1] < other[1] \/ (pr[1] = other[1] /\ pr[2] <= other[2])

\* Pass 3: split on paired single stars
RECURSIVE RefItalic(_)
RefItalic(t) ==
  IF PairsOf(t, <<"*">>) = {}
  THEN (IF t = <<>> THEN <<>> ELSE <<[kind |-> "PlainText", value |-> t]>>)
  ELSE LET pr == FirstPair(t, <<"*">>)
       IN  (IF pr[1] = 1 THEN <<>>
            ELSE <<[kind |-> "PlainText", value |-> SubSeq(t, 1, pr[1] - 1)]>>)
           \o <<[kind |-> "Italic", value |-> SubSeq(t, pr[1] + 1, pr[2] - 1)]>>
           \o RefItalic(SubSeq(t, pr[2] + 1, Len(t)))

\* Pass 2: split on paired double stars
RECURSIVE RefBold(_)
RefBold(t) ==
  IF PairsOf(t, <<"*", "*">>) = {} THEN RefItalic(t)
  ELSE LET pr == FirstPair(t, <<"*", "*">>)
       IN  RefItalic(SubSeq(t, 1, pr[1] - 1))
           \o <<[kind |-> "Bold", value |-> SubSeq(t, pr[1] + 2, pr[2] - 1)]>>
           \o RefBold(SubSeq(t, pr[2] + 2, Len(t)))

\* Pass 1: split on paired backticks
RECURSIVE RefCode(_)
RefCode(t) ==
  IF PairsOf(t, <<BT>>) = {} THEN RefBold(t)
  ELSE LET pr == FirstPair(t, <<BT>>)
       IN  RefBold(SubSeq(t, 1, pr[1] - 1))
           \o <<[kind |-> "InlineCode", value |-> SubSeq(t, pr[1] + 1, pr[2] - 1)]>>
           \o RefCode(SubSeq(t, pr[2] + 1, Len(t)))

\* The spans the specification gives for the mixed-inline scenario
MixedSpans ==
  << [kind |-> "PlainText", value |-> <<"U", "s", "e", " ">>],
     [kind |-> "InlineCode", value |-> <<"x">>],
     [kind |-> "PlainText", value |-> <<" ", "a", "n", "d", " ">>],
     [kind |-> "Bold", value |-> <<"b", "o", "l", "d">>],
     [kind |-> "PlainText", value |-> <<" ", "a", "n", "d", " ">>],
     [kind |-> "Italic", value |-> <<"i", "t", "a", "l", "i", "c">>],
     [kind |-> "PlainText", value |-> <<".">>] >>

\* C6: the spans of every text run are those of the three fixed passes: code
\* pairs first, then bold pairs in what is left, then italic pairs in what is
\* left of that, the rest plain text; nothing inside an InlineCode or Bold
\* span is formatted again; the mixed-inline scenario yields its seven spans.
C6_ThreePassReference ==
  fpc = "done" =>
    /\ parts = RefCode(text)
    /\ text = MixedExample => parts = MixedSpans

\* A code span that holds a pair of stars has been emitted with the stars
\* left in its value
C6_Witness ==
  /\ fpc = "done"
  /\ \E k \in 1..Len(parts) :
       /\ parts[k].kind = "InlineCode"
       /\ PairsOf(parts[k].value, <<"*">>) # {}

\* The values of the spans, concatenated in emission order
Values == Concat([k \in 1..Len(parts) |-> parts[k].value])

CountIn(t, c) == Cardinality({k \in 1..Len(t) : t[k] = c})

SpansOf(kind) == {k \in 1..Len(parts) : parts[k].kind = kind}

\* t is s with some characters left out
RECURSIVE IsSubsequence(_, _)
IsSubsequence(t, s) ==
  IF t = <<>> THEN TRUE
  ELSE IF s = <<>> THEN FALSE
  ELSE IF t[1] = s[1] THEN IsSubsequence(Tail(t), Tail(s))
  ELSE IsSubsequence(t, Tail(s))

NoDelimiters(t) == SelectSeq(t, LAMBDA c : c \notin {BT, "*"})

\* C7 as stated: the concatenated span values equal the input text run.
C7_ValuesEqualInput == fpc = "done" => Values = text

\* C7 amended: the concatenated span values are the input text run without
\* the delimiters of the matched pairs: nothing is gained, the order is kept,
\* and exactly two characters per InlineCode and Italic span and four per
\* Bold span, all of them backticks or stars, are lost.
C7_ValuesAreInputWithoutDelimiters ==
  fpc = "done" =>
    /\ IsSubsequence(Values, text)
    /\ NoDelimiters(Values) = NoDelimiters(text)
    /\ Len(text) = Len(Values) + 2 * Cardinality(SpansOf("InlineCode"))
                     + 4 * Cardinality(SpansOf("Bold"))
                     + 2 * Cardinality(SpansOf("Italic"))
    /\ CountIn(text, BT) = CountIn(Values, BT)
                             + 2 * Cardinality(SpansOf("InlineCode"))

\* A text with a code span and a star left as plain text has been formatted
C7_Witness ==
  /\ fpc = "done"
  /\ SpansOf("InlineCode") # {}
  /\ \E k \in SpansOf("PlainText") :
       \E j \in 1..Len(parts[k].value) : parts[k].value[j] = "*"
  /\ Len(Values) = Len(text) - 2

AllPlainText == \A k \in 1..Len(parts) : parts[k].kind = "PlainText"

\* The text holds exactly two stars and they are adjacent
OneDoubleStar(t) ==
  /\ CountIn(t, "*") = 2
  /\ \E k \in 1..(Len(t) - 1) : t[k] = "*" /\ t[k + 1] = "*"

InPlainText(c) ==
  \E k \in SpansOf("PlainText") :
    \E j \in 1..Len(parts[k].value) : parts[k].value[j] = c

----------------------------------------------------------------------------
(* Properties of the block rules *)

\* Line k (from 1) of the document is no fence marker and is outside every
\* code block
Outside(k) == ~IsFenceLine(DocLines[k]) /\ FencesBefore(k) % 2 = 0

\* The number of whitespace characters the line starts with
Offset(line) ==
  SetMax({n \in 0..Len(line) : \A k \in 1..n : line[k] \in {" ", "\t", "\r"}})

\* The number of # the line starts with
Hashes(line) == SetMax({n \in 0..Len(line) : \A k \in 1..n : line[k] = "#"})

\* The number of digits at the offset of the line
DigitsAt(line) ==
  SetMax({m \in 0..(Len(line) - Offset(line)) :
            \A k \in (Offset(line) + 1)..(Offset(line) + m) :
              line[k] \in {"0", "1", "2", "3", "4", "5", "6", "7", "8", "9"}})

\* Every header line outside a code block has a Heading node whose level is
\* the number of # and whose text is the rest of the line after the space
HeadingLines ==
  \A k \in 1..Len(DocLines) :
    (Outside(k) /\ RuleMatches(1, DocLines[k])) =>
      LET line == DocLines[k]
      IN  \E n \in NodesAt(k) :
            /\ elements[n].kind = "Heading"
            /\ elements[n].level = Hashes(line)
            /\ elements[n].text = SubSeq(line, Hashes(line) + 2, Len(line))

\* The first four nodes are the headings of the four-level example
FourHeadings ==
  /\ Len(elements) >= 4
  /\ \A n \in 1..4 : elements[n].kind = "Heading" /\ elements[n].level = n
  /\ elements[1].text = <<"T", "i", "t", "l", "e">>
  /\ elements[2].text = <<"S", "u", "b">>
  /\ elements[3].text = <<"D", "e", "t", "a", "i", "l">>
  /\ elements[4].text = <<"N", "o", "t", "e">>

\* C13 as stated: every line outside a code block that starts with one to
\* four # and a space gives a Heading of that level with the rest of the
\* line as its text, and the output for the four-level example is four nodes,
\* the Headings of levels 1 to 4.
C13_FourNodes ==
  pc = "done" =>
    /\ HeadingLines
    /\ content = HeadersExample => (FourHeadings /\ Len(elements) = 4)

\* C13 amended: the same for every header line, and the output for the
\* four-level example is five nodes, the Headings of levels 1 to 4 and then
\* the BlankSpacer of the empty line after the final newline.
C13_FourHeadingsAndSpacer ==
  pc = "done" =>
    /\ HeadingLines
    /\ content = HeadersExample =>
         /\ FourHeadings
         /\ Len(elements) = 5
         /\ elements[5].kind = "BlankSpacer"

\* The four-level example has been scanned
C13_Witness ==
  /\ pc = "done"
  /\ content = HeadersExample
  /\ \E n \in 1..Len(elements) :
       elements[n].kind = "Heading" /\ elements[n].level = 4

\* The spans that carry text
Visible(spans) == SelectSeq(spans, LAMBDA sp : sp.value # <<>>)

\* C14: the spans of every Blockquote node are the spans the inline formatter
\* gives for the rest of the line after the marker and its space.
C14_BlockquoteSpans ==
  \A n \in 1..Len(elements) :
    elements[n].kind = "Blockquote" =>
      LET line == DocLines[elements[n].key + 1]
      IN  Visible(elements[n].spans) = Visible(RefCode(SubSeq(line, 3, Len(line))))

\* The line, with the whitespace around it dropped, is three or more of one
\* of the characters *, - and _
TrimmedRule(line) ==
  \E a \in 0..Len(line) : \E b \in 0..Len(line) :
    /\ a + b + 3 <= Len(line)
    /\ \A k \in 1..a : line[k] \in {" ", "\t", "\r"}
    /\ \A k \in (Len(line) - b + 1)..Len(line) : line[k] \in {" ", "\t", "\r"}
    /\ line[a + 1] \in {"*", "-", "_"}
    /\ \A k \in (a + 1)..(Len(line) - b) : line[k] = line[a + 1]

\* C15: every line outside a code block that no earlier rule matches and that
\* is, after trimming, three or more of one of *, - and _ gives a
\* HorizontalRule node, whitespace in front of it or after it or not.
C15_TrimmedRule ==
  pc = "done" =>
    \A k \in 1..Len(DocLines) :
      ( /\ Outside(k)
        /\ \A r \in 1..4 : ~RuleMatches(r, DocLines[k])
        /\ TrimmedRule(DocLines[k]) ) =>
        \E n \in NodesAt(k) : elements[n].kind = "HorizontalRule"

\* The node of list item line k: its offset, its form and the spans of the
\* line after the marker and its space
ListItemAt(k) ==
  LET line == DocLines[k]
      unordered == RuleMatches(3, line)
      rest == IF unordered THEN SubSeq(line, Offset(line) + 3, Len(line))
              ELSE SubSeq(line, Offset(line) + DigitsAt(line) + 3, Len(line))
  IN  \E n \in NodesAt(k) :
        /\ elements[n].kind = "ListItem"
        /\ elements[n].indentLevel = Offset(line)
        /\ elements[n].ordered = ~unordered
        /\ elements[n].spans = RefCode(rest)

\* The indent levels of the ListItem nodes, in order
IndentLevels ==
  LET items == SelectSeq(elements, LAMBDA e : e.kind = "ListItem")
  IN  [n \in 1..Len(items) |-> items[n].indentLevel]

\* C16: every list item line outside a code block gives a ListItem whose
\* indentLevel is the number of whitespace characters in front of the marker,
\* whose ordered is true exactly for the numeric form and whose spans are the
\* inline formatter's for the line after the marker; the example with items
\* at offsets 2 and 4 gives two ListItems with indentLevel 2 and 4.
C16_ListItems ==
  pc = "done" =>
    /\ \A k \in 1..Len(DocLines) :
         ( /\ Outside(k)
           /\ ~RuleMatches(1, DocLines[k]) /\ ~RuleMatches(2, DocLines[k])
           /\ RuleMatches(3, DocLines[k]) \/ RuleMatches(4, DocLines[k]) ) =>
           ListItemAt(k)
    /\ content = ListExample => IndentLevels = <<2, 4>>

\* An unordered item at offset 2 and an ordered item behind a tab have been
\* scanned
C16_Witness ==
  /\ pc = "done"
  /\ \E n \in 1..Len(elements) :
       /\ elements[n].kind = "ListItem"
       /\ ~elements[n].ordered /\ elements[n].indentLevel = 2
  /\ \E n \in 1..Len(elements) :
       /\ elements[n].kind = "ListItem"
       /\ elements[n].ordered /\ elements[n].indentLevel = 1

----------------------------------------------------------------------------
(* Properties of the heading outline *)

\* The line is one to three #, then spaces, then text
IsHeaderLine(line) ==
  /\ Hashes(line) \in 1..3
  /\ Len(line) > Hashes(line) + 1
  /\ line[Hashes(line) + 1] \in {" ", "\t"}
  /\ \E k \in (Hashes(line) + 2)..Len(line) : line[k] \notin {" ", "\t"}

\* The text of a header line: the line behind its # and the spaces after them
HeaderText(line) ==
  LET from == SetMin({k \in (Hashes(line) + 2)..Len(line) :
                        line[k] \notin {" ", "\t"}})
  IN  SubSeq(line, from, Len(line))

\* One entry for every header line of the document, in document order
ExpectedEntries ==
  LET headerLines == SelectSeq(DocLines, IsHeaderLine)
  IN  [k \in 1..Len(headerLines) |->
         [text |-> HeaderText(headerLines[k]),
          level |-> Hashes(headerLines[k]),
          id |-> generateHeadingId(HeaderText(headerLines[k]))]]

\* C11: the outline holds, in document order, exactly one entry for every
\* line that is one to three #, at least one space and text on that line,
\* with the number of # as level and the rest of the line as text, and no
\* entry for any other line; equal header lines give equal entries.
C11_OneEntryPerHeaderLine == vpc = "shown" => headings = ExpectedEntries

\* C12: the active heading id is empty when the viewer is mounted; a step
\* changes it only by the activation of an outline entry whose id resolves to
\* an element, which is scrolled into view and whose id it becomes; the
\* activation of an entry whose id resolves to nothing scrolls nothing and
\* leaves it, and so do a render, a scroll and a dark-mode toggle.
C12_ActiveHeading ==
  [][ /\ vpc = "mount" => activeHeading = <<>>
      /\ activeHeading' # activeHeading =>
           /\ event'.kind = "click"
           /\ event'.id \in domIds
           /\ activeHeading' = event'.id
           /\ scroll' = [by |-> "element", id |-> event'.id]
      /\ (vpc = "shown" /\ event'.kind = "click" /\ event' # event) =>
           IF event'.id \in domIds
           THEN /\ activeHeading' = event'.id
                /\ scroll' = [by |-> "element", id |-> event'.id]
           ELSE activeHeading' = activeHeading /\ scroll' = scroll
      /\ event'.kind \in {"render", "scroll", "toggle"} =>
           activeHeading' = activeHeading ]_vars

\* An entry has been activated and focused, and a dark-mode toggle has come
\* after it
C12_Witness ==
  /\ activeHeading # <<>>
  /\ activeHeading \in domIds
  /\ event.kind = "toggle"
  /\ darkMode

\* The level and text of every entry of the outline of a document
OutlinePairs(c) ==
  LET entries == ExtractHeadings(c)
  IN  [k \in 1..Len(entries) |->
         [level |-> entries[k].level, text |-> entries[k].text]]

\* The level and text of the Heading nodes of level 1 to 3, in their order
RECURSIVE HeadingPairs(_)
HeadingPairs(nodes) ==
  IF nodes = <<>> THEN <<>>
  ELSE LET n == Head(nodes)
       IN  IF n.kind = "Heading" /\ n.level <= 3
           THEN <<[level |-> n.level, text |-> n.text]>>
                  \o HeadingPairs(Tail(nodes))
           ELSE HeadingPairs(Tail(nodes))

\* C26: the outline of a document lists the levels and texts of the Heading
\* nodes of level 1 to 3 the scan of the same document emits, in the same
\* order, and nothing else.
C26_OutlineIsRenderedHeadings ==
  pc = "done" => OutlinePairs(content) = HeadingPairs(elements)

\* C27: every entry of the outline shown has its id on an element the
\* renderer emits, and a click on an entry makes its id the active heading
\* and scrolls to its element.
C27_EntryTargetsRendered ==
  /\ [](vpc = "shown" =>
          \A k \in 1..Len(headings) : headings[k].id \in RenderedIds)
  /\ [][(vpc = "shown" /\ event'.kind = "click" /\ event' # event) =>
          (activeHeading' = event'.id
             /\ scroll' = [by |-> "element", id |-> event'.id])]_vars

----------------------------------------------------------------------------
(* Properties of the page *)

\* C17: a file-content response is discarded when it is stale: the step that
\* ends a loadFileContent call started under another path than the current
\* one leaves the path, and with it the view, as it is.
C17_StaleDiscarded ==
  [][\A call \in pending :
       (call \notin pending' /\ call.path # path) => path' = path]_vars

\* C20: the content of every file node is undefined or the text the backend
\* holds for the file, and the text the viewer hands to the renderer and to
\* the heading extraction is empty or that text; the text of a failed fetch
\* is neither stored nor rendered.
C20_OnlyFetchedText ==
  /\ \A e \in DOMAIN entryContent :
       entryContent[e] \in {Undefined, <<Backend[e]>>}
  /\ ViewerShown => RenderedContent \in {<<>>, Backend[Last(path)]}

\* C21: while the directory listing or the content of a file is being
\* fetched the page shows the loading indicator, and with no fetch under way
\* and the listing fetch over it does not.
C21_LoadingWhilePending ==
  /\ (fsFetch = "pending" \/ pending # {}) => loading
  /\ (fsFetch = "done" /\ pending = {}) => ~loading

\* C23: once the first listing fetch is over, failed or not, the page has
\* left the loading screen.
C23_LeavesLoadingScreen == fsFetch = "done" => ~LoadingScreen

\* The children of a folder of the listing
ChildrenOf(n) == {Children[n][k] : k \in 1..Len(Children[n])}

\* A path from the root down the tree: no entry twice, a file only last
PathWellFormed(p) ==
  /\ p # <<>>
  /\ p[1] = "root"
  /\ \A k \in 2..Len(p) : p[k] \in ChildrenOf(p[k - 1])
  /\ \A k, m \in 1..Len(p) : k # m => p[k] # p[m]
  /\ \A k \in 1..(Len(p) - 1) : NodeType[p[k]] = "folder"

\* C29: once the listing is shown the path leads from the root down the
\* tree, child by child, with no entry twice and a file only at its end; a
\* step that shortens the path keeps a prefix of it and never empties it.
C29_PathWellFormed ==
  /\ [](Shown => PathWellFormed(path))
  /\ [][(Shown /\ Len(path') < Len(path)) =>
          (path' # <<>> /\ path' = SubSeq(path, 1, Len(path')))]_vars

\* C30: a file is opened without a fetch only when the content kept for it
\* is the text the backend holds; a file whose last fetch failed is fetched
\* again by the next click on it.
C30_FailedFetchedAgain ==
  [][\A e \in Files :
       (path' = Append(path, e) /\ pending' = pending) =>
         entryContent[e] = <<Backend[e]>>]_vars

\* A step of onToggleDarkMode
Toggled == mounted /\ mounted' /\ darkMode' # darkMode

\* A step that loads the page with an item in the store
LoadedWithItem == ~mounted /\ mounted' /\ stored # Undefined

\* C24: the item 'darkMode' changes only in a step of the toggle; a page
\* load that finds an item ends with darkMode equal to it and leaves it as
\* it is; after a toggle the item is the new darkMode.
C24_ToggleOnlyWriter ==
  /\ [][stored' # stored => Toggled]_vars
  /\ [][LoadedWithItem =>
          (stored' = stored /\ stored' = <<BoolString(darkMode')>>)]_vars
  /\ [][Toggled => stored' = <<BoolString(darkMode')>>]_vars

----------------------------------------------------------------------------
(* Properties of the endpoints *)

\* The path the request resolves to below the working directory: .. leaves
\* the directory in front of it
RECURSIVE Resolved(_, _)
Resolved(at, segs) ==
  IF segs = <<>> THEN at
  ELSE IF segs[1] = <<".", ".">>
    THEN Resolved(IF at = <<>> THEN at ELSE SubSeq(at, 1, Len(at) - 1), Tail(segs))
    ELSE Resolved(at \o <<segs[1]>>, Tail(segs))

\* The target of the request
Target == Resolved(<<<<"a", "p", "p">>, <<"d", "o", "c", "s">>>>, request.path)

\* The target is the docs directory or lies below it
InsideRoot ==
  Len(Target) >= 2 /\ Target[1] = <<"a", "p", "p">> /\ Target[2] = <<"d", "o", "c", "s">>

\* C18: an endpoint returns a content or a listing only for a target inside
\* the docs root; a request whose target is outside it, the sibling
\* directory whose name starts with the name of the root too, gets 403,
\* and nothing is read for it.
C18_InsideRootOnly ==
  response # NoResponse =>
    /\ response.status = 200 => InsideRoot
    /\ ~InsideRoot => (response.status = 403 /\ reads = {})

\* The nodes of a listing and of the listings below it
RECURSIVE AllListings(_)
AllListings(nodes) ==
  {nodes} \cup UNION {AllListings(nodes[k].children) :
                        k \in {j \in 1..Len(nodes) : nodes[j].type = "folder"}}

\* Alphabetical order of names: at the first place they differ the earlier
\* letter wins, and a name comes before every longer name it starts
NameBefore(a, b) ==
  LET letters == <<".", "a", "b", "c", "d", "e", "f", "g", "h", "i", "j", "k",
                   "l", "m", "n", "o", "p", "q", "r", "s", "t", "u", "v", "w",
                   "x", "y", "z">>
      Rank(c) == CHOOSE k \in 1..Len(letters) : letters[k] = c
  IN  \/ Len(a) < Len(b) /\ SubSeq(b, 1, Len(a)) = a
      \/ \E k \in 1..Len(a) :
           /\ k <= Len(b)
           /\ SubSeq(a, 1, k - 1) = SubSeq(b, 1, k - 1)
           /\ Rank(a[k]) < Rank(b[k])

\* C19: in the listing and in the listing of every folder below it the
\* folders come before the files, the folders and the files are each in
\* alphabetical order of their names, no name starts with a dot, and every
\* file name ends in .md.
C19_ListingOrder ==
  (request.endpoint = "files" /\ response # NoResponse /\ response.status = 200) =>
    \A nodes \in AllListings(response.children) :
      /\ \A a \in 1..Len(nodes) : \A b \in 1..Len(nodes) :
           a < b =>
             /\ ~(nodes[a].type = "file" /\ nodes[b].type = "folder")
             /\ nodes[a].type = nodes[b].type =>
                  NameBefore(nodes[a].name, nodes[b].name)
      /\ \A a \in 1..Len(nodes) :
           /\ nodes[a].name[1] # "."
           /\ nodes[a].type = "file" =>
                /\ Len(nodes[a].name) >= 3
                /\ SubSeq(nodes[a].name, Len(nodes[a].name) - 2,
                          Len(nodes[a].name)) = <<".", "m", "d">>

\* A docs directory whose entries are read in another order than the listing
\* has, with two folders, a file and a nested folder of two entries, has
\* been listed
C19_Witness ==
  /\ request.endpoint = "files"
  /\ response # NoResponse
  /\ response.status = 200
  /\ Len(response.children) = 3
  /\ response.children[1].type = "folder"
  /\ response.children[2].type = "folder"
  /\ response.children[3].type = "file"
  /\ Len(response.children[2].children) = 2
  /\ disk[1].children[1].name = response.children[3].name
  /\ disk[1].children[2].name = response.children[2].name

----------------------------------------------------------------------------
(* Properties of the scanner's loop *)

\* C22: in every scanner state with inCodeBlock false, codeBlockLines is
\* empty and codeLanguage is the empty string; the step that closes a fence
\* resets both, and the step that opens one leaves codeBlockLines empty.
C22_FenceStateReset ==
  [][ /\ ~inCodeBlock => (codeBlockLines = <<>> /\ codeLanguage = <<>>)
      /\ ~inCodeBlock' => (codeBlockLines' = <<>> /\ codeLanguage' = <<>>)
      /\ (inCodeBlock /\ ~inCodeBlock') =>
           (codeBlockLines' = <<>> /\ codeLanguage' = <<>>)
      /\ (~inCodeBlock /\ inCodeBlock') => codeBlockLines' = <<>> ]_vars

\* A fence with a language and a line inside it has been closed
C22_Witness ==
  /\ pc = "done"
  /\ ~inCodeBlock
  /\ \E n \in 1..Len(elements) :
       /\ elements[n].kind = "CodeBlock"
       /\ elements[n].language # <<>>
       /\ elements[n].content # <<>>

\* C25: the scan of every document ends: every step is taken by a scan
\* that has not returned, every iteration moves the line index on by exactly
\* one, from 0 and never past the number of lines, the nodes come in the
\* order of the lines they were emitted at, each line giving at most one,
\* and the scan returns when the index has reached the number of lines,
\* whatever fence markers and delimiters the document holds.
C25_ScanTerminates ==
  /\ [](pc = "scan" => i <= Len(lines))
  /\ [](\A n \in 1..Len(elements) :
         /\ elements[n].key < i
         /\ \A m \in 1..Len(elements) :
              n < m => elements[n].key < elements[m].key)
  /\ [][ /\ (pc = "start" /\ pc' = "scan") => i' = 0
         /\ (pc = "scan" /\ pc' = "scan") => i' = i + 1
         /\ (pc = "scan" /\ pc' = "done") => (i = Len(lines) /\ i' = i)
         /\ pc \in {"start", "scan"} ]_vars

\* A document of four lines or more with an unclosed fence and an unmatched
\* star has been scanned to its end
C25_Witness ==
  /\ pc = "done"
  /\ i = Len(lines)
  /\ Len(lines) >= 4
  /\ inCodeBlock
  /\ \E n \in 1..Len(elements) : elements[n].kind # "CodeBlock"

----------------------------------------------------------------------------
(* The round trip of formatInlineStyles *)

\* The span with the delimiters of its kind around its value
Rewrapped(span) ==
  CASE span.kind = "InlineCode" -> <<BT>> \o span.value \o <<BT>>
    [] span.kind = "Bold" -> <<"*", "*">> \o span.value \o <<"*", "*">>
    [] span.kind = "Italic" -> <<"*">> \o span.value \o <<"*">>
    [] OTHER -> span.value

\* C28: the spans, each InlineCode value back in backticks, each Bold value in
\* double stars and each Italic value in stars, concatenate in emission order
\* to the input text run, and no span has an empty value.
C28_RewrapRoundTrip ==
  fpc = "done" =>
    /\ Concat([k \in 1..Len(parts) |-> Rewrapped(parts[k])]) = text
    /\ \A k \in 1..Len(parts) : parts[k].value # <<>>

\* A text with a pair of every kind and a star without a partner has been
\* formatted
C28_Witness ==
  /\ fpc = "done"
  /\ \E k \in 1..Len(parts) : parts[k].kind = "InlineCode"
  /\ \E k \in 1..Len(parts) : parts[k].kind = "Bold"
  /\ \E k \in 1..Len(parts) : parts[k].kind = "Italic"
  /\ \E k \in 1..Len(parts) : parts[k].kind = "PlainText"

====
